---- MODULE Spec2Model ----
(***************************************************************************)
(* Ocean-to-Database: the nearest-match aligner (align_arrays.py) and the  *)
(* reconciliation driver DatabaseUploader.update_table                     *)
(* (external_data_to_database.py, generate_sql_query.py).                  *)
(*                                                                         *)
(* Times are whole minutes counted from midnight of the day of the first   *)
(* sensor sample.  An optional value (Python's None or a value) is the     *)
(* empty sequence or a one-element sequence.                               *)
(***************************************************************************)
EXTENDS Integers, Sequences, FiniteSets

VARIABLES
    \* ---- a direct call of one of the aligner's functions
    search_array,        \* the search array handed to the call
    pivot_array,         \* the pivots handed to the call
    max_dist,            \* None or the maximum distance
    call,                \* which function was called ("none" before the call)
    output,              \* what the call returned, one optional per slot
    \* ---- DatabaseUploader and its collaborators
    testing,             \* self.testing
    data,                \* the sensor dataframe: rows in file order
    parameters,          \* the caller's parameter list
    query_results,       \* partitions the datasetinfo query returns, in order
    existing,            \* tables present in information_schema.tables
    hdr_table,           \* the hdrtime rows stored in each table
    pc,                  \* position of update_table
    error,               \* the exception that ended the call ("" for none)
    date_range,          \* <<start_date, end_date>>
    engineering_tables,  \* the list update_table iterates over
    ti,                  \* index of eng_table in engineering_tables
    pj,                  \* index of p in parameters
    hdrtimes,            \* header times of the current unit
    aligned_dates,       \* align_arrays' output for the current unit
    hdrtimes_to_update,  \* keys of the current unit's updates
    param_data_to_update,\* values of the current unit's updates
    k,                   \* position of run_update_sql's loop
    pending,             \* UPDATEs executed in the open transaction
    committed,           \* UPDATEs made durable by a commit
    log,                 \* every persistence call, in order
    metadata             \* the returned summary (None until returned)

fnvars == <<search_array, pivot_array, max_dist, call, output>>
dbvars == <<testing, data, parameters, query_results, existing, hdr_table, pc,
            date_range, engineering_tables, ti, pj, hdrtimes, aligned_dates,
            hdrtimes_to_update, param_data_to_update, k, pending, committed,
            log, metadata>>
vars == <<fnvars, dbvars, error>>

None == << >>
Some(x) == <<x>>
Abs(x) == IF x < 0 THEN -x ELSE x
Range(s) == {s[i] : i \in DOMAIN s}

\* ------------------------------------------------------------------ bounds
MaxElem == 2      \* search-array elements of a direct call are 0..MaxElem
MaxLen == 3       \* longest search array of a direct call
MaxPivots == 2    \* longest pivot array of a direct call
MaxTables == 2    \* most partitions the datasetinfo query returns
MaxParams == 2    \* longest parameter list
MaxHdrs == 2      \* most hdrtime rows of a table
MaxRows == 2      \* most rows of the sensor dataframe
MaxValue == 2     \* sensor readings are -1..MaxValue

\* ------------------------------------------------------- align_arrays.py

\* np.searchsorted(a, v, side='left'): binary search, 0-based insertion index.
RECURSIVE BinSearch(_, _, _, _)
BinSearch(a, v, lo, hi) ==
    IF lo < hi
    THEN LET mid == lo + ((hi - lo) \div 2)
         IN IF a[mid + 1] < v THEN BinSearch(a, v, mid + 1, hi)
                              ELSE BinSearch(a, v, lo, mid)
    ELSE lo

searchsorted(a, v) == BinSearch(a, v, 0, Len(a))

\* a[lo:hi] of Python (0-based, half open, cut at the end of the array).
Slice(a, lo, hi) ==
    LET last == IF hi < Len(a) THEN hi ELSE Len(a)
    IN [i \in 1..(last - lo) |-> a[lo + i]]

\* argmin picking the last of equal minima (a faulty argmin).
argmin_last(d) ==
    CHOOSE i \in DOMAIN d : (\A j \in DOMAIN d : d[i] <= d[j])
                            /\ (\A j \in DOMAIN d : j > i => d[j] > d[i])

\* np.argmin: the first index of the smallest entry (a 1-based index here).
argmin(d) ==
    CHOOSE i \in DOMAIN d : (\A j \in DOMAIN d : d[i] <= d[j])
                            /\ (\A j \in DOMAIN d : j < i => d[j] > d[i])

\* A faulty find_closest: it never looks at the element before the
\* insertion point.
find_closest_right(search_arr, pivot) ==
    LET index == searchsorted(search_arr, pivot)
    IN IF index < Len(search_arr) THEN search_arr[index + 1]
                                  ELSE search_arr[Len(search_arr)]

\* find_closest of a non-empty array (an empty one raises IndexError at
\* search_array[0]: see find_closest_raises).
find_closest(search_arr, pivot) ==
    LET index == searchsorted(search_arr, pivot)
    IN IF index # 0
       THEN LET values == Slice(search_arr, index - 1, index + 1)
                distances == [i \in DOMAIN values |-> Abs(values[i] - pivot)]
                min_index == argmin(distances)
            IN values[min_index]
       ELSE search_arr[index + 1]

find_closest_raises(search_arr) == Len(search_arr) = 0

\* A faulty closest_within_distance: the bound is exclusive.
closest_within_distance_strict(search_arr, pivot, dist) ==
    LET nearest_value == find_closest(search_arr, pivot)
    IN IF Abs(nearest_value - pivot) < dist THEN Some(nearest_value) ELSE None

closest_within_distance(search_arr, pivot, dist) ==
    LET nearest_value == find_closest(search_arr, pivot)
    IN IF Abs(nearest_value - pivot) <= dist THEN Some(nearest_value) ELSE None

\* np.sort(kind='mergesort'): the elements in ascending order.
RECURSIVE Insert(_, _)
Insert(x, s) ==
    IF s = << >> THEN <<x>>
    ELSE IF x < Head(s) THEN <<x>> \o s
    ELSE <<Head(s)>> \o Insert(x, Tail(s))

RECURSIVE np_sort(_)
np_sort(s) == IF s = << >> THEN << >> ELSE Insert(Head(s), np_sort(Tail(s)))

\* The array without its first element equal to x.
RECURSIVE WithoutFirst(_, _)
WithoutFirst(s, x) ==
    IF s = << >> THEN << >>
    ELSE IF Head(s) = x THEN Tail(s)
    ELSE <<Head(s)>> \o WithoutFirst(Tail(s), x)

\* An aligner that takes a matched element out of the search array, so that
\* no element is matched twice (not what align_arrays does).
RECURSIVE AlignConsuming(_, _, _)
AlignConsuming(sorted, pivot_arr, dist) ==
    IF pivot_arr = << >> THEN << >>
    ELSE LET m == IF sorted = << >> THEN None
                  ELSE IF dist = None
                       THEN Some(find_closest(sorted, Head(pivot_arr)))
                       ELSE closest_within_distance(sorted, Head(pivot_arr),
                                                    dist[1])
             rest == IF m = None THEN sorted ELSE WithoutFirst(sorted, m[1])
         IN <<m>> \o AlignConsuming(rest, Tail(pivot_arr), dist)

align_arrays_consuming(search_arr, pivot_arr, dist) ==
    AlignConsuming(np_sort(search_arr), pivot_arr, dist)

\* A faulty align_arrays: it searches the caller's array as it is, without
\* sorting a copy first.
align_arrays_unsorted(search_arr, pivot_arr, dist) ==
    [i \in 1..Len(pivot_arr) |->
        IF dist = None THEN Some(find_closest(search_arr, pivot_arr[i]))
        ELSE closest_within_distance(search_arr, pivot_arr[i], dist[1])]

\* A faulty align_arrays: the slots come out in ascending order of the pivots
\* instead of the order of pivot_array.
align_arrays_sorted_pivots(search_arr, pivot_arr, dist) ==
    LET sorted == np_sort(search_arr)
        pivots == np_sort(pivot_arr)
    IN [i \in 1..Len(pivot_arr) |->
          IF dist = None THEN Some(find_closest(sorted, pivots[i]))
          ELSE closest_within_distance(sorted, pivots[i], dist[1])]

\* align_arrays of arrays it does not raise on: one slot per pivot, in order.
align_arrays(search_arr, pivot_arr, dist) ==
    LET sorted == np_sort(search_arr)
    IN [i \in 1..Len(pivot_arr) |->
          IF dist = None THEN Some(find_closest(sorted, pivot_arr[i]))
          ELSE closest_within_distance(sorted, pivot_arr[i], dist[1])]

\* The loop body runs find_closest once per pivot: IndexError if there is a
\* pivot and nothing to search.
align_arrays_raises(search_arr, pivot_arr) ==
    Len(pivot_arr) > 0 /\ find_closest_raises(search_arr)

\* ------------------------------------------- external_data_to_database.py

HdrtimeOffset == 17   \* np.timedelta64(17, 'm') added to every hdrtime
Tolerance == 20       \* np.timedelta64(20, 'm'), align_arrays' max_dist
EndPadding == 10      \* np.timedelta64(10, 'm') added to the last datetime
DayMinutes == 1440    \* strftime('%Y-%m-%d') cuts a datetime to its day

Columns == {"sst", "sss"}             \* the parameter columns of the dataframe

parameter_mapping == [p \in {"sst", "sss", "sal"} |->
                        IF p = "sst" THEN "sst" ELSE "sal"]

\* A set of integers as an ascending sequence (ORDER BY hdrtime).
RECURSIVE Ascending(_)
Ascending(S) ==
    IF S = {} THEN << >>
    ELSE LET m == CHOOSE x \in S : \A y \in S : x <= y
         IN <<m>> \o Ascending(S \ {m})

\* _get_date_range of a dataframe with at least one row.
get_date_range(d) == <<d[1].datetime, d[Len(d)].datetime + EndPadding>>

\* list.remove(x): the list without the first occurrence of x.
ListRemove(list, x) ==
    LET at == CHOOSE i \in DOMAIN list :
                  list[i] = x /\ \A j \in DOMAIN list : j < i => list[j] # x
    IN [i \in 1..(Len(list) - 1) |-> IF i < at THEN list[i] ELSE list[i + 1]]

\* _test_for_eng_table_existence: the for loop over the list it removes from.
\* i is the position the list iterator reads next (1-based); the iterator
\* moves on by one whether or not the element it read was removed.
RECURSIVE test_for_eng_table_existence(_, _, _)
test_for_eng_table_existence(tables, exist, i) ==
    IF i > Len(tables) THEN tables
    ELSE IF tables[i] \notin exist
         THEN test_for_eng_table_existence(ListRemove(tables, tables[i]), exist, i + 1)
         ELSE test_for_eng_table_existence(tables, exist, i + 1)

\* _get_engineering_table_names: one name per query result, then the filter.
get_engineering_table_names(results, exist) ==
    test_for_eng_table_existence(results, exist, 1)

\* A faulty hdrtime query: the rows come back latest first.
hdrtime_query_descending(rows, dr) ==
    LET lo == (dr[1] \div DayMinutes) * DayMinutes
        asc == Ascending({h \in rows : lo <= h /\ h <= dr[2]})
    IN [i \in DOMAIN asc |-> asc[Len(asc) + 1 - i]]

\* generate_hdrtime_query run on an existing table: hdrtime BETWEEN the start
\* date's midnight and the end date (to the minute), ORDER BY hdrtime.
hdrtime_query(rows, dr) ==
    LET lo == (dr[1] \div DayMinutes) * DayMinutes
    IN Ascending({h \in rows : lo <= h /\ h <= dr[2]})

\* data[(data[p] >= 0)]: a faulty filter that keeps zero readings.
sub_data_nonneg(d, p) == SelectSeq(d, LAMBDA row : row[p] >= 0)

\* data[(data[p] > 0)]
sub_data(d, p) == SelectSeq(d, LAMBDA row : row[p] > 0)

datetimes(d) == [i \in DOMAIN d |-> d[i].datetime]

\* `if atime`: None is falsy.  (The one falsy datetime64, the epoch, is not a
\* time of the model: times count from the first sample's day.)
Truthy(a) == a # None

\* _get_hdrtimes_and_aligned_times, after the query: the aligned dates of hdr.
aligned_times(hdr, sub) ==
    LET adjusted_hdrtimes == [i \in DOMAIN hdr |-> hdr[i] + HdrtimeOffset]
    IN align_arrays(datetimes(sub), adjusted_hdrtimes, Some(Tolerance))

\* Faulty keys: taken after the offset was added.
hdrtimes_to_update_adjusted(hdr, aligned) ==
    LET keep == SelectSeq([i \in DOMAIN hdr |-> i], LAMBDA i : Truthy(aligned[i]))
    IN [n \in DOMAIN keep |-> hdr[keep[n]] + HdrtimeOffset]

\* [htime for htime, atime in zip(hdrtimes, aligned_dates) if atime]
hdrtimes_to_update_of(hdr, aligned) ==
    LET keep == SelectSeq([i \in DOMAIN hdr |-> i], LAMBDA i : Truthy(aligned[i]))
    IN [n \in DOMAIN keep |-> hdr[keep[n]]]

\* sub_data[p][dtime]: the p value of the row whose index label is dtime.
row_value(sub, p, dtime) == (CHOOSE row \in Range(sub) : row.datetime = dtime)[p]

\* [sub_data[p][dtime] for dtime in aligned_dates if dtime]
param_data_to_update_of(sub, p, aligned) ==
    LET keep == SelectSeq(aligned, Truthy)
    IN [n \in DOMAIN keep |-> row_value(sub, p, keep[n][1])]

\* ------------------------------------------------------- update_table

eng_table == engineering_tables[ti]
p_now == parameters[pj]

Raise(exc) ==
    /\ pc' = "raised"
    /\ error' = exc

\* update_table, lines 115-117: the date range and the partitions.
Start ==
    /\ pc = "start"
    /\ IF Len(data) = 0
       THEN /\ Raise("IndexError")          \* data['datetime'][0] of no rows
            /\ UNCHANGED <<date_range, engineering_tables>>
       ELSE /\ date_range' = get_date_range(data)
            /\ engineering_tables' =
                   get_engineering_table_names(query_results, existing)
            /\ pc' = "loop"
            /\ error' = error
    /\ UNCHANGED <<fnvars, testing, data, parameters, query_results, existing,
                   hdr_table, ti, pj, hdrtimes, aligned_dates,
                   hdrtimes_to_update, param_data_to_update, k, pending,
                   committed, log, metadata>>

\* The loop body up to generate_update_sql (lines 120-132) for one
\* partition/parameter unit.
PrepareUnit ==
    /\ pc = "loop"
    /\ ti <= Len(engineering_tables)
    /\ IF p_now \notin Columns
       THEN /\ Raise("KeyError")            \* data[p]
            /\ UNCHANGED <<hdrtimes, aligned_dates, hdrtimes_to_update,
                           param_data_to_update>>
       ELSE IF eng_table \notin existing
       THEN /\ Raise("UndefinedTable")      \* the hdrtime query of no table
            /\ UNCHANGED <<hdrtimes, aligned_dates, hdrtimes_to_update,
                           param_data_to_update>>
       ELSE LET sub == sub_data(data, p_now)
                hdr == hdrtime_query(hdr_table[eng_table], date_range)
            IN IF align_arrays_raises(datetimes(sub), hdr)
               THEN /\ Raise("IndexError")  \* search_array[0] of no rows
                    /\ hdrtimes' = hdr
                    /\ UNCHANGED <<aligned_dates, hdrtimes_to_update,
                                   param_data_to_update>>
               ELSE LET aligned == aligned_times(hdr, sub)
                    IN /\ hdrtimes' = hdr
                       /\ aligned_dates' = aligned
                       /\ hdrtimes_to_update' =
                              hdrtimes_to_update_of(hdr, aligned)
                       /\ param_data_to_update' =
                              param_data_to_update_of(sub, p_now, aligned)
                       /\ IF p_now \in DOMAIN parameter_mapping
                          THEN pc' = "run" /\ error' = error
                          ELSE Raise("KeyError")   \* parameter_mapping[p]
    /\ k' = 1
    /\ UNCHANGED <<fnvars, testing, data, parameters, query_results, existing,
                   hdr_table, date_range, engineering_tables, ti, pj, pending,
                   committed, log, metadata>>

\* The UPDATE that run_update_sql's k-th cursor.execute sends.
update_k ==
    [op |-> "execute", table |-> eng_table,
     column |-> parameter_mapping[p_now],
     hdrtime |-> hdrtimes_to_update[k], value |-> param_data_to_update[k]]

\* run_update_sql, one turn of its loop: cursor.execute succeeds.
CursorExecute ==
    /\ pc = "run"
    /\ k <= Len(hdrtimes_to_update)
    /\ pending' = Append(pending, update_k)
    /\ log' = Append(log, update_k)
    /\ k' = k + 1
    /\ UNCHANGED <<fnvars, testing, data, parameters, query_results, existing,
                   hdr_table, pc, error, date_range, engineering_tables, ti,
                   pj, hdrtimes, aligned_dates, hdrtimes_to_update,
                   param_data_to_update, committed, metadata>>

\* run_update_sql, one turn of its loop: the store rejects the write and the
\* exception leaves update_table (nothing catches it).
CursorExecuteRaises ==
    /\ pc = "run"
    /\ k <= Len(hdrtimes_to_update)
    /\ Raise("PersistenceFailure")
    /\ UNCHANGED <<fnvars, testing, data, parameters, query_results, existing,
                   hdr_table, date_range, engineering_tables, ti, pj, hdrtimes,
                   aligned_dates, hdrtimes_to_update, param_data_to_update, k,
                   pending, committed, log, metadata>>

\* self.conn.commit() after run_update_sql, then the loops move on.
Commit ==
    /\ pc = "run"
    /\ k > Len(hdrtimes_to_update)
    /\ committed' = committed \o pending
    /\ pending' = << >>
    /\ log' = Append(log, [op |-> "commit", table |-> eng_table,
                           column |-> parameter_mapping[p_now]])
    /\ IF pj < Len(parameters)
       THEN pj' = pj + 1 /\ ti' = ti
       ELSE pj' = 1 /\ ti' = ti + 1
    /\ pc' = "loop"
    /\ UNCHANGED <<fnvars, testing, data, parameters, query_results, existing,
                   hdr_table, error, date_range, engineering_tables, hdrtimes,
                   aligned_dates, hdrtimes_to_update, param_data_to_update, k,
                   metadata>>

\* Lines 138-145: the metadata, once every partition is done.
ReturnMetadata ==
    /\ pc = "loop"
    /\ ti > Len(engineering_tables)
    /\ IF \A i \in DOMAIN parameters : parameters[i] \in DOMAIN parameter_mapping
       THEN /\ metadata' = Some([Parameter |->
                                    [i \in DOMAIN parameters |->
                                        parameter_mapping[parameters[i]]],
                                 DateRange |-> date_range,
                                 EngineeringTables |-> engineering_tables])
            /\ pc' = "done"
            /\ error' = error
       ELSE /\ Raise("KeyError")            \* parameter_mapping[p]
            /\ UNCHANGED metadata
    /\ UNCHANGED <<fnvars, testing, data, parameters, query_results, existing,
                   hdr_table, date_range, engineering_tables, ti, pj, hdrtimes,
                   aligned_dates, hdrtimes_to_update, param_data_to_update, k,
                   pending, committed, log>>

Next ==
    \/ Start
    \/ PrepareUnit
    \/ CursorExecute
    \/ CursorExecuteRaises
    \/ Commit
    \/ ReturnMetadata

\* ------------------------------------------------------ direct calls

\* find_closest(search_array, pivot_array[0])
CallFindClosest ==
    /\ call = "none"
    /\ Len(pivot_array) >= 1
    /\ call' = "find_closest"
    /\ IF find_closest_raises(search_array)
       THEN error' = "IndexError" /\ output' = << >>
       ELSE /\ error' = error
            /\ output' = <<Some(find_closest(search_array, pivot_array[1]))>>
    /\ UNCHANGED <<search_array, pivot_array, max_dist, dbvars>>

\* closest_within_distance(search_array, pivot_array[0], max_dist)
CallClosestWithinDistance ==
    /\ call = "none"
    /\ Len(pivot_array) >= 1
    /\ max_dist # None
    /\ call' = "closest_within_distance"
    /\ IF find_closest_raises(search_array)
       THEN error' = "IndexError" /\ output' = << >>
       ELSE /\ error' = error
            /\ output' = <<closest_within_distance(search_array, pivot_array[1],
                                                   max_dist[1])>>
    /\ UNCHANGED <<search_array, pivot_array, max_dist, dbvars>>

\* align_arrays(search_array, pivot_array, max_dist)
CallAlignArrays ==
    /\ call = "none"
    /\ call' = "align_arrays"
    /\ IF align_arrays_raises(search_array, pivot_array)
       THEN error' = "IndexError" /\ output' = << >>
       ELSE /\ error' = error
            /\ output' = align_arrays(search_array, pivot_array, max_dist)
    /\ UNCHANGED <<search_array, pivot_array, max_dist, dbvars>>

NextFn ==
    \/ CallFindClosest
    \/ CallClosestWithinDistance
    \/ CallAlignArrays

\* --------------------------------------------------------------- inputs

SeqsUpTo(S, n) == UNION {[1..m -> S] : m \in 0..n}

\* The smallest header time that a sensor sample at minute 0 just misses.
Base == Tolerance - HdrtimeOffset + 1

HdrCandidates == Base..(Base + MaxHdrs - 1)
HdrSets == SUBSET HdrCandidates

\* Sensor times around Base + HdrtimeOffset: at it, and at and just beyond
\* the tolerance on either side.
SensorCandidates ==
    {Base + HdrtimeOffset + d :
        d \in {-(Tolerance + 1), -Tolerance, 0, Tolerance, Tolerance + 1}}

Values == -1..MaxValue
ParamNames == {"sst", "sss", "xyz"}

\* Dataframes of at most n rows, ascending in time, with sst readings from
\* ssts and sss readings from ssss.
DataSeries(times, ssts, ssss, n) ==
    UNION {
        LET asc == Ascending(ts)
        IN {[i \in DOMAIN asc |->
               [datetime |-> asc[i], sst |-> v[i][1], sss |-> v[i][2]]] :
             v \in [DOMAIN asc -> ssts \X ssss]} :
        ts \in {x \in SUBSET times : Cardinality(x) <= n}}

\* The dataframes of update_table over several partitions: at most one
\* sample, at Base + HdrtimeOffset, each reading 0 (invalid) or 1 (valid).
StructData == DataSeries({Base + HdrtimeOffset}, {0, 1}, {0, 1}, 1)

\* The dataframes of one unit: the requested parameter's readings range over
\* Values, the other column's are 0 (invalid) or 1 (valid).
UnitDataSst == DataSeries(SensorCandidates, Values, {0, 1}, MaxRows)
UnitDataSss == DataSeries(SensorCandidates, {0, 1}, Values, MaxRows)

\* The arrays of a direct call, with the spec's concrete scenarios.
FnSearchArrays == SeqsUpTo(0..MaxElem, MaxLen) \cup {<<10, 20, 30>>}
FnPivotArrays == SeqsUpTo(-1..(MaxElem + 1), MaxPivots)
                     \cup {<<5, 15, 25, 100>>, <<11, 25>>}

FnIdle ==
    /\ search_array = << >>
    /\ pivot_array = << >>
    /\ max_dist = None
    /\ call = "none"
    /\ output = << >>

DbFresh ==
    /\ pc = "start"
    /\ error = ""
    /\ date_range = << >>
    /\ engineering_tables = << >>
    /\ ti = 1
    /\ pj = 1
    /\ hdrtimes = << >>
    /\ aligned_dates = << >>
    /\ hdrtimes_to_update = << >>
    /\ param_data_to_update = << >>
    /\ k = 1
    /\ pending = << >>
    /\ committed = << >>
    /\ log = << >>
    /\ metadata = None

\* update_table over several partitions and parameters.
Init ==
    /\ FnIdle
    /\ DbFresh
    /\ testing \in BOOLEAN
    /\ \E n \in 0..MaxTables :
          /\ query_results = [i \in 1..n |-> i]
          /\ existing \in SUBSET (1..n)
          /\ hdr_table \in [1..n -> HdrSets]
          /\ \A t \in 1..n : t \notin existing => hdr_table[t] = {}
    /\ parameters \in SeqsUpTo(ParamNames, MaxParams) \ {<< >>}
    /\ data \in StructData

Spec == Init /\ [][Next]_vars

\* update_table of one existing partition and one parameter, over sensor
\* samples at the edges of the tolerance.
InitUnit ==
    /\ FnIdle
    /\ DbFresh
    /\ testing = FALSE
    /\ query_results = <<1>>
    /\ existing = {1}
    /\ hdr_table \in [{1} -> HdrSets]
    /\ \/ /\ parameters = <<"sst">>
          /\ data \in UnitDataSst
       \/ /\ parameters = <<"sss">>
          /\ data \in UnitDataSss

SpecUnit == InitUnit /\ [][Next]_vars

\* One direct call of find_closest, closest_within_distance or align_arrays.
InitFn ==
    /\ search_array \in FnSearchArrays
    /\ pivot_array \in FnPivotArrays
    /\ max_dist \in {None, Some(3)} \cup {Some(d) : d \in 0..MaxElem}
    /\ call = "none"
    /\ output = << >>
    /\ error = ""
    /\ pc = "idle"
    /\ testing = FALSE
    /\ data = << >>
    /\ parameters = << >>
    /\ query_results = << >>
    /\ existing = {}
    /\ hdr_table = << >>
    /\ date_range = << >>
    /\ engineering_tables = << >>
    /\ ti = 1
    /\ pj = 1
    /\ hdrtimes = << >>
    /\ aligned_dates = << >>
    /\ hdrtimes_to_update = << >>
    /\ param_data_to_update = << >>
    /\ k = 1
    /\ pending = << >>
    /\ committed = << >>
    /\ log = << >>
    /\ metadata = None

SpecFn == InitFn /\ [][NextFn]_vars

\* ---------------------------------------------------------- properties

IsSorted(s) == \A i, j \in DOMAIN s : i < j => s[i] <= s[j]

\* The smallest distance from v to an element of the non-empty array s.
NearestDistance(s, v) ==
    CHOOSE d \in {Abs(e - v) : e \in Range(s)} :
        \A e \in Range(s) : d <= Abs(e - v)

\* C1: for a non-empty ascending search array and any pivot, below, inside
\* or above the array, find_closest returns an element of the array that is
\* at least as close to the pivot as every other element.
C1_FindClosestIsNearest ==
    (call = "find_closest" /\ Len(search_array) > 0 /\ IsSorted(search_array))
    => /\ error = ""
       /\ Len(output) = 1
       /\ output[1] # None
       /\ output[1][1] \in Range(search_array)
       /\ \A e \in Range(search_array) :
             Abs(output[1][1] - pivot_array[1]) <= Abs(e - pivot_array[1])

\* C1 witness: a pivot above the maximum of an array of two or more
\* different elements, answered with the maximum.
C1_Witness ==
    /\ call = "find_closest"
    /\ IsSorted(search_array)
    /\ Len(search_array) >= 2
    /\ search_array[1] < search_array[Len(search_array)]
    /\ pivot_array[1] > search_array[Len(search_array)]
    /\ output = <<Some(search_array[Len(search_array)])>>

\* C2: closest_within_distance returns None exactly when the nearest
\* distance is strictly greater than max_dist, and the nearest element when
\* the distance is max_dist or less; align_arrays([10,20,30], [11,25], 3)
\* is [10, None].
C2_WithinDistanceIffNear ==
    /\ (call = "closest_within_distance" /\ Len(search_array) > 0
            /\ IsSorted(search_array))
       => /\ error = ""
          /\ Len(output) = 1
          /\ (output[1] = None)
                <=> (NearestDistance(search_array, pivot_array[1]) > max_dist[1])
          /\ output[1] # None
                => /\ output[1][1] \in Range(search_array)
                   /\ Abs(output[1][1] - pivot_array[1])
                         = NearestDistance(search_array, pivot_array[1])
    /\ (call = "align_arrays" /\ search_array = <<10, 20, 30>>
            /\ pivot_array = <<11, 25>> /\ max_dist = Some(3))
       => output = <<Some(10), None>>

\* C2 witness: the nearest element lies exactly max_dist > 0 away and is
\* returned.
C2_Witness ==
    /\ call = "closest_within_distance"
    /\ IsSorted(search_array)
    /\ Len(search_array) > 0
    /\ max_dist[1] > 0
    /\ NearestDistance(search_array, pivot_array[1]) = max_dist[1]
    /\ output # << >>
    /\ output[1] # None

\* C10: a pivot exactly half way between two neighbouring elements of the
\* sorted array is answered with the lower one; align_arrays([10,20,30],
\* [5,15,25,100]) without max_dist is [10,10,20,30].
C10_TieGoesToLower ==
    /\ (call = "find_closest" /\ IsSorted(search_array))
       => \A i \in 1..(Len(search_array) - 1) :
             (/\ search_array[i] < pivot_array[1]
              /\ pivot_array[1] < search_array[i + 1]
              /\ pivot_array[1] - search_array[i]
                    = search_array[i + 1] - pivot_array[1])
             => output = <<Some(search_array[i])>>
    /\ (call = "align_arrays" /\ search_array = <<10, 20, 30>>
            /\ pivot_array = <<5, 15, 25, 100>> /\ max_dist = None)
       => output = <<Some(10), Some(10), Some(20), Some(30)>>

\* C10 witness: find_closest answered a pivot half way between two
\* neighbours.
C10_Witness ==
    /\ call = "find_closest"
    /\ IsSorted(search_array)
    /\ \E i \in 1..(Len(search_array) - 1) :
          /\ search_array[i] < pivot_array[1]
          /\ pivot_array[1] < search_array[i + 1]
          /\ pivot_array[1] - search_array[i]
                = search_array[i + 1] - pivot_array[1]
          /\ output = <<Some(search_array[i])>>

\* The rows of the dataframe whose reading of parameter p is valid.
PositiveRows(p) == {row \in Range(data) : row[p] > 0}

\* The unit's run_update_sql has sent every UPDATE and commit is next.
UnitWritten == pc = "run" /\ k > Len(hdrtimes_to_update)

\* The valid rows of p that are nearest to header time T after the offset.
NearestRows(p, T) ==
    {row \in PositiveRows(p) :
        \A q \in PositiveRows(p) :
            Abs(row.datetime - (T + 17)) <= Abs(q.datetime - (T + 17))}

\* The UPDATEs the unit hands to run_update_sql, in order.
UnitInstructions ==
    [n \in DOMAIN hdrtimes_to_update |->
        [op |-> "execute", table |-> eng_table,
         column |-> IF p_now = "sst" THEN "sst" ELSE "sal",
         hdrtime |-> hdrtimes_to_update[n], value |-> param_data_to_update[n]]]

\* C3: for every header time T the query returned, the unit emits an UPDATE
\* for T exactly when some row with a strictly positive reading lies within
\* 20 minutes (inclusive) of T + 17 minutes; then there is one UPDATE for T,
\* keyed by T itself, carrying the reading of a row nearest to T + 17
\* minutes; no UPDATE has any other key; and the UPDATEs sent to the store
\* are these, in order.
C3_OffsetMatchKeyedByHdrtime ==
    pc = "run"
    => /\ Len(param_data_to_update) = Len(hdrtimes_to_update)
       /\ pending = SubSeq(UnitInstructions, 1, k - 1)
       /\ \A n \in DOMAIN hdrtimes_to_update :
             hdrtimes_to_update[n] \in Range(hdrtimes)
       /\ \A i \in DOMAIN hdrtimes :
             LET T == hdrtimes[i]
                 near == {row \in PositiveRows(p_now) :
                             Abs(row.datetime - (T + 17)) <= 20}
                 hits == {n \in DOMAIN hdrtimes_to_update :
                             hdrtimes_to_update[n] = T}
             IN /\ (hits # {}) <=> (near # {})
                /\ Cardinality(hits) <= 1
                /\ \A n \in hits :
                      \E row \in NearestRows(p_now, T) :
                          param_data_to_update[n] = row[p_now]

\* C3 witness: a unit fully written in which one header time was matched to
\* a row exactly 20 minutes from T + 17 and another header time was not
\* matched.
C3_Witness ==
    /\ UnitWritten
    /\ \E i, j \in DOMAIN hdrtimes :
          /\ \E n \in DOMAIN pending : pending[n].hdrtime = hdrtimes[i]
          /\ \A row \in NearestRows(p_now, hdrtimes[i]) :
                Abs(row.datetime - (hdrtimes[i] + 17)) = 20
          /\ \A n \in DOMAIN pending : pending[n].hdrtime # hdrtimes[j]

\* C4 (as claimed): after partition resolution no partition that is absent
\* from the backing store is left in the list update_table processes and
\* returns.
C4_NonexistentExcluded ==
    \A i \in DOMAIN engineering_tables : engineering_tables[i] \in existing

\* C5 (as claimed): in testing mode update_table makes no persistence call:
\* no UPDATE is executed and nothing is committed.
C5_TestingNoPersistence ==
    testing => (log = << >> /\ pending = << >> /\ committed = << >>)

\* C6 (as claimed): no sensor time is matched to two different header
\* times of one unit.
C6_MatchingInjective ==
    pc = "run"
    => \A i, j \in DOMAIN aligned_dates :
          (i # j /\ aligned_dates[i] # None /\ aligned_dates[j] # None)
          => aligned_dates[i] # aligned_dates[j]

\* What header time T is matched to: the earliest of the valid rows nearest
\* to T + 17 minutes if that is within 20 minutes, and nothing otherwise.
ExpectedMatch(p, T) ==
    LET near == {row.datetime : row \in
                    {r \in NearestRows(p, T) : Abs(r.datetime - (T + 17)) <= 20}}
    IN IF near = {} THEN None
       ELSE Some(CHOOSE t \in near : \A u \in near : t <= u)

\* C6 (amended): the matching is many-to-one.  Every header time is matched
\* on its own to the nearest valid row within 20 minutes of T + 17 minutes
\* (the earlier on a tie), whether or not another header time of the unit is
\* matched to the same row.
C6_MatchingManyToOne ==
    pc = "run"
    => /\ Len(aligned_dates) = Len(hdrtimes)
       /\ \A i \in DOMAIN hdrtimes :
             aligned_dates[i] = ExpectedMatch(p_now, hdrtimes[i])

\* C6 witness: two header times of one unit matched to the same sensor time.
C6_Witness ==
    /\ pc = "run"
    /\ \E i, j \in DOMAIN aligned_dates :
          /\ i # j
          /\ aligned_dates[i] # None
          /\ aligned_dates[i] = aligned_dates[j]

\* C7 (as claimed): a unit whose parameter has no row with a strictly
\* positive reading ends without an error.
C7_NoValidRowsNoError ==
    ~ /\ pc = "raised"
      /\ Len(data) > 0
      /\ ti <= Len(engineering_tables)
      /\ eng_table \in existing
      /\ p_now \in Columns
      /\ PositiveRows(p_now) = {}

\* C8 (as claimed): a persistence failure in one unit does not keep the
\* later partitions from being processed.
C8_FailureDoesNotBlock ==
    ~ /\ pc = "raised"
      /\ error = "PersistenceFailure"
      /\ ti < Len(engineering_tables)

\* C9: no UPDATE, executed, committed or prepared, carries a reading <= 0,
\* and every sensor time a header time is matched to is the time of a row
\* whose reading of the unit's parameter is strictly positive.
C9_NonPositiveNeverMatched ==
    /\ \A n \in DOMAIN pending : pending[n].value > 0
    /\ \A n \in DOMAIN committed : committed[n].value > 0
    /\ pc = "run"
       => /\ \A n \in DOMAIN param_data_to_update : param_data_to_update[n] > 0
          /\ \A i \in DOMAIN aligned_dates :
                aligned_dates[i] # None
                => \E row \in PositiveRows(p_now) :
                      row.datetime = aligned_dates[i][1]

\* C9 witness: the row nearest in time to T + 17 has a reading <= 0 and T is
\* matched to a valid row farther away.
C9_Witness ==
    /\ pc = "run"
    /\ \E i \in DOMAIN aligned_dates :
          /\ aligned_dates[i] # None
          /\ \E row \in Range(data) :
                /\ row[p_now] <= 0
                /\ Abs(row.datetime - (hdrtimes[i] + 17))
                      < Abs(aligned_dates[i][1] - (hdrtimes[i] + 17))

\* The slot of one pivot v on its own: the element of the non-empty array s
\* nearest to v, the smaller of two equally near ones, and nothing if dist is
\* set and that element is farther than dist from v.
ExpectedSlot(s, v, dist) ==
    LET nearest == CHOOSE e \in Range(s) :
                       \A f \in Range(s) :
                           \/ Abs(e - v) < Abs(f - v)
                           \/ (Abs(e - v) = Abs(f - v) /\ e <= f)
    IN IF dist = None \/ Abs(nearest - v) <= dist[1] THEN Some(nearest)
       ELSE None

\* C11 (as claimed): for every search array and every pivot array,
\* align_arrays returns exactly one slot per pivot, in the order of
\* pivot_array, and slot i is the result for pivot_array[i] alone.
C11_EverySearchArray ==
    call = "align_arrays"
    => /\ error = ""
       /\ Len(output) = Len(pivot_array)
       /\ \A i \in DOMAIN pivot_array :
             output[i] = ExpectedSlot(search_array, pivot_array[i], max_dist)

\* C11 (amended): for every non-empty search array, sorted or not, and every
\* pivot array, and for an empty search array with an empty pivot array,
\* align_arrays returns exactly one slot per pivot, in the order of
\* pivot_array (not sorted), and slot i is the result for pivot_array[i]
\* alone, whatever the other pivots are; an empty search array with one or
\* more pivots raises IndexError instead.
C11_SlotPerPivotInOrder ==
    call = "align_arrays"
    => IF Len(search_array) = 0 /\ Len(pivot_array) > 0
       THEN error = "IndexError"
       ELSE /\ error = ""
            /\ Len(output) = Len(pivot_array)
            /\ \A i \in DOMAIN pivot_array :
                  output[i] = ExpectedSlot(search_array, pivot_array[i],
                                           max_dist)

\* C11 witness: two pivots in descending order answered with two different
\* elements, in the order of the pivots.
C11_Witness ==
    /\ call = "align_arrays"
    /\ error = ""
    /\ Len(pivot_array) = 2
    /\ pivot_array[1] > pivot_array[2]
    /\ Len(output) = 2
    /\ output[1] # None
    /\ output[2] # None
    /\ output[1][1] > output[2][1]

\* The elements of s in ascending order, each as often as in s.
RECURSIVE SortedOf(_)
SortedOf(s) ==
    IF s = << >> THEN << >>
    ELSE LET i == CHOOSE n \in DOMAIN s : \A j \in DOMAIN s : s[n] <= s[j]
             rest == [n \in 1..(Len(s) - 1) |->
                        IF n < i THEN s[n] ELSE s[n + 1]]
         IN <<s[i]>> \o SortedOf(rest)

\* C12: whatever the order of the elements of the search array,
\* align_arrays gives the outcome it gives for the same elements in
\* ascending order (the same slots, or the same IndexError when there is
\* nothing to search), and no call changes the caller's search array, so a
\* second run on the same array gives the same output.
C12_UnsortedInputTolerated ==
    /\ [](call = "align_arrays"
            => IF Len(search_array) = 0 /\ Len(pivot_array) > 0
               THEN error = "IndexError"
               ELSE /\ error = ""
                    /\ output = align_arrays(SortedOf(search_array),
                                             pivot_array, max_dist))
    /\ [][search_array' = search_array]_vars

\* C12 witness: align_arrays answered a pivot from a search array whose
\* elements are not in ascending order, with an element that is not where
\* a binary search of the unsorted array ends.
C12_Witness ==
    /\ call = "align_arrays"
    /\ error = ""
    /\ ~IsSorted(search_array)
    /\ \E i \in DOMAIN pivot_array :
          /\ output[i] # None
          /\ output[i][1] # find_closest(search_array, pivot_array[i])

\* The unit (1, 2, ...) that the n-th persistence call belongs to: a commit
\* closes its unit, so the unit is one more than the commits before n.
UnitOf(n) ==
    1 + Cardinality({m \in 1..(n - 1) : log[m].op = "commit"})

\* The partition and the parameter of unit u when partitions are taken in
\* the order of the resolved list and, for each, parameters in the order of
\* the caller's list.
UnitTable(u) == engineering_tables[((u - 1) \div Len(parameters)) + 1]
UnitParameter(u) == parameters[((u - 1) % Len(parameters)) + 1]

\* C13: the resolved partitions are in chronological order; the
\* persistence calls come unit by unit, partitions in the order of the
\* resolved list and, within a partition, parameters in the order of the
\* caller's list; the UPDATEs of a unit come in ascending hdrtime order; and
\* each unit ends with exactly one commit, which precedes every call of the
\* next unit, so that a call that returns has committed once per unit.
C13_UnitsInOrderOneCommitEach ==
    /\ \A i, j \in DOMAIN engineering_tables :
          i < j => engineering_tables[i] < engineering_tables[j]
    /\ \A n \in DOMAIN log :
          LET u == UnitOf(n)
          IN /\ u <= Len(engineering_tables) * Len(parameters)
             /\ log[n].table = UnitTable(u)
             /\ log[n].column = (IF UnitParameter(u) = "sst" THEN "sst"
                                                             ELSE "sal")
    /\ \A n \in 1..(Len(log) - 1) :
          (log[n].op = "execute" /\ log[n + 1].op = "execute")
          => log[n].hdrtime < log[n + 1].hdrtime
    /\ pc = "done"
       => /\ log # << >> => log[Len(log)].op = "commit"
          /\ Cardinality({n \in DOMAIN log : log[n].op = "commit"})
                = Len(engineering_tables) * Len(parameters)

\* C13 witness: a call that returned after two partitions and two different
\* parameters, every unit with two UPDATEs and its commit.
C13_Witness ==
    /\ pc = "done"
    /\ Len(engineering_tables) = 2
    /\ Len(parameters) = 2
    /\ parameters[1] # parameters[2]
    /\ Len(log) = 12
    /\ \A u \in 1..4 :
          /\ log[3 * u - 2].op = "execute"
          /\ log[3 * u - 1].op = "execute"
          /\ log[3 * u].op = "commit"

\* C14 (as claimed): when a requested parameter is not in parameter_mapping,
\* wherever it stands in the list and however many partitions there are,
\* the call never returns and no UPDATE is executed and nothing is committed.
C14_UnknownParameterFailsFirst ==
    (\E i \in DOMAIN parameters : parameters[i] \notin DOMAIN parameter_mapping)
    => /\ pc # "done"
       /\ log = << >>
       /\ pending = << >>
       /\ committed = << >>

====
